---------------------------- MODULE Spec2Model ----------------------------
(***************************************************************************)
(* dx7dump (v1.03a): Yamaha DX7 sysex dump analyzer.                       *)
(*                                                                         *)
(* The model follows one run of the program on one file: main calls        *)
(* processFile(argv[0]) once per process, and every global starts at its   *)
(* initialiser.  Bytes are the integers 0..255; the file buffer is the     *)
(* sequence of its sysexSize bytes, so the byte at C offset k is element   *)
(* k + 1 of the sequence.                                                  *)
(***************************************************************************)
EXTENDS Integers, Sequences, FiniteSets, TLC

(***************************************************************************)
(* Program constants.                                                      *)
(***************************************************************************)
sysexSize == 4104
rawDataSize == 4096
singleSysexSize == 163
singleRawDataSize == 155
SizeofVoiceUnpacked == 155
SizeofVoicePacked == 128

(***************************************************************************)
(* Bounds of the model.                                                    *)
(***************************************************************************)
\* number of leading payload bytes that vary between the modelled files
NumLead == 1
\* number of function calls made by the function-level harness
MaxCalls == 2

Byte == 0..255

(***************************************************************************)
(* Layout of struct DX7Sysex / DX7SingleSysex over the buffer.             *)
(***************************************************************************)
sysexBeginF0(b) == b[1]
yamaha43(b) == b[2]
subStatusAndChannel(b) == b[3]
format9(b) == b[4]
sizeMSB(b) == b[5]
sizeLSB(b) == b[6]
\* the 4096 bytes of voices[32], offsets 6..4101
voices(b) == SubSeq(b, 7, 6 + rawDataSize)
checksumOf(b) == b[sysexSize - 1]
sysexEndF7(b) == b[sysexSize]

\* DX7SingleSysex: voice at offsets 6..160, checksum at 161, end at 162
singleVoice(b) == SubSeq(b, 7, 6 + SizeofVoiceUnpacked)
singleChecksum(b) == b[singleSysexSize - 1]
singleEndF7(b) == b[singleSysexSize]

(***************************************************************************)
(* Bit operations on unsigned char.                                        *)
(***************************************************************************)
RECURSIVE BitAnd(_, _)
BitAnd(a, b) ==
    IF a = 0 \/ b = 0 THEN 0
    ELSE (a % 2) * (b % 2) + 2 * BitAnd(a \div 2, b \div 2)

\* x & 0x7F
\* (p[i] >> 1) & 0x7F: bits 7..1 instead of bits 6..0
Low7Shifted(x) == (x \div 2) % 128
Low7(x) == x % 128

\* (unsigned char)((~sum) + 1): ~sum is 255 - sum on 8 bits
TwosComplement8(sum) == ((255 - sum) + 1) % 256

\* C's `!=` yields the int 1 or 0
NeqInt(a, b) == IF a # b THEN 1 ELSE 0

(***************************************************************************)
(* Checksum engine.                                                        *)
(***************************************************************************)
\* The loop `for (i = lo; i < hi; ++i) sum += (p[i] & 0x7F);` on an unsigned
\* char accumulator.  The bytes are taken in increasing order; the range is
\* halved so that the evaluation depth stays logarithmic in the span, and the
\* accumulator of the first half is computed before the second half starts.
RECURSIVE SumLoop(_, _, _, _)
SumLoop(p, lo, hi, sum) ==
    IF hi <= lo THEN sum
    ELSE IF hi = lo + 1 THEN (sum + Low7(p[lo + 1])) % 256
    ELSE LET mid == (lo + hi) \div 2
             first == SumLoop(p, lo, mid, sum)
         IN  IF first \in Byte THEN SumLoop(p, mid, hi, first) ELSE first

\* the 4 lines after the loop: two's complement, mask to 7 bits
FinishSumBug(sum) == (255 - sum) % 128
FinishSum(sum) == TwosComplement8(sum) % 128

\* voice is the sequence of bytes the pointer points at
ChecksumSingle(voice, blocksize) == FinishSum(SumLoop(voice, 0, blocksize, 0))

\* p = (unsigned char *)sysex->voices is offset 6 of the buffer
Checksum(sysex) == FinishSum(SumLoop(sysex, 6, 6 + rawDataSize, 0))


(***************************************************************************)
(* Messages: the text put into msgBuffer or printed, with the values that  *)
(* are formatted into it.                                                  *)
(***************************************************************************)
Msg(text, args) == [text |-> text, args |-> args]
NoMsg == Msg("", <<>>)

(***************************************************************************)
(* Structural validator of a bank dump.  msg and fix are the globals       *)
(* msgBuffer and fixNeeded before the call; the result carries the return  *)
(* value and both globals after it.                                        *)
(***************************************************************************)
\* `sysex->subStatusAndChannel & 0xF0 != 0`: != binds tighter than &, so the
\* byte is and-ed with the int (0xF0 != 0)
SubStatusTest(x) == BitAnd(x, NeqInt(240, 0)) # 0

VerifyHeaderFieldsMSBOnly(sysex, msg, fix) ==
    LET g1 == IF SubStatusTest(subStatusAndChannel(sysex))
              THEN [msg |-> Msg("Did not find substatus 0. (substatus=%d)",
                                <<BitAnd(subStatusAndChannel(sysex), 240) \div 16>>),
                    fix |-> TRUE]
              ELSE [msg |-> msg, fix |-> fix]
        g2 == IF format9(sysex) # 9
              THEN [msg |-> Msg("Did not find format 9 (32 voices)", <<>>),
                    fix |-> TRUE]
              ELSE g1
    IN  IF sizeMSB(sysex) # 32
        THEN [msg |-> Msg("WARNING: Declared data byte count is not 4096. (sizeMSB=0x%X, sizeLSB=0x%X)",
                          <<sizeMSB(sysex), sizeLSB(sysex)>>),
              fix |-> TRUE]
        ELSE g2

VerifyHeaderFields(sysex, msg, fix) ==
    LET g1 == IF SubStatusTest(subStatusAndChannel(sysex))
              THEN [msg |-> Msg("Did not find substatus 0. (substatus=%d)",
                                <<BitAnd(subStatusAndChannel(sysex), 240) \div 16>>),
                    fix |-> TRUE]
              ELSE [msg |-> msg, fix |-> fix]
        g2 == IF format9(sysex) # 9
              THEN [msg |-> Msg("Did not find format 9 (32 voices)", <<>>),
                    fix |-> TRUE]
              ELSE g1
    IN  IF sizeMSB(sysex) # 32 \/ sizeLSB(sysex) # 0
        THEN [msg |-> Msg("WARNING: Declared data byte count is not 4096. (sizeMSB=0x%X, sizeLSB=0x%X)",
                          <<sizeMSB(sysex), sizeLSB(sysex)>>),
              fix |-> TRUE]
        ELSE g2

VerifyChecksumFatal(sysex, msg, fix) ==
    LET sum == Checksum(sysex)
    IN  IF sum # checksumOf(sysex)
        THEN [ret |-> 1,
              msgBuffer |-> Msg("CHECKSUM FAILED: Should have been 0x%X", <<sum>>),
              fixNeeded |-> TRUE]
        ELSE [ret |-> 0, msgBuffer |-> msg, fixNeeded |-> fix]

VerifyChecksumSilent(sysex, msg, fix) ==
    LET sum == Checksum(sysex)
    IN  IF sum # checksumOf(sysex)
        THEN [ret |-> 0, msgBuffer |-> msg, fixNeeded |-> TRUE]
        ELSE [ret |-> 0, msgBuffer |-> msg, fixNeeded |-> fix]

VerifyChecksum(sysex, msg, fix) ==
    LET sum == Checksum(sysex)
    IN  IF sum # checksumOf(sysex)
        THEN [ret |-> 0,
              msgBuffer |-> Msg("CHECKSUM FAILED: Should have been 0x%X", <<sum>>),
              fixNeeded |-> TRUE]
        ELSE [ret |-> 0, msgBuffer |-> msg, fixNeeded |-> fix]

Verify(sysex, msg, fix) ==
    IF sysexBeginF0(sysex) # 240
    THEN [ret |-> 1, msgBuffer |-> Msg("Did not find sysex start F0", <<>>),
          fixNeeded |-> fix]
    ELSE IF yamaha43(sysex) # 67
    THEN [ret |-> 1, msgBuffer |-> Msg("Did not find Yamaha ID 0x43", <<>>),
          fixNeeded |-> fix]
    ELSE LET g == VerifyHeaderFields(sysex, msg, fix)
         IN  IF sysexEndF7(sysex) # 247
             THEN [ret |-> 1, msgBuffer |-> Msg("Did not find sysex end F7", <<>>),
                   fixNeeded |-> g.fix]
             ELSE VerifyChecksum(sysex, g.msg, g.fix)

(***************************************************************************)
(* Structural validator of a single voice dump: the error code, the        *)
(* checksum line it may print, and the return value.                       *)
(***************************************************************************)
SingleHeaderError(sysex) ==
      (IF sysexBeginF0(sysex) # 240 THEN 128 ELSE 0)
    + (IF yamaha43(sysex) # 67 THEN 64 ELSE 0)
    + (IF SubStatusTest(subStatusAndChannel(sysex)) THEN 32 ELSE 0)
    + (IF format9(sysex) # 0 THEN 16 ELSE 0)
    + (IF sizeMSB(sysex) # 1 THEN 8 ELSE 0)
    + (IF sizeLSB(sysex) # 27 THEN 4 ELSE 0)
    + (IF singleEndF7(sysex) # 247 THEN 1 ELSE 0)

VerifySingle(sysex) ==
    LET error == SingleHeaderError(sysex)
    IN  IF error = 0
        THEN LET sum == ChecksumSingle(singleVoice(sysex), SizeofVoiceUnpacked)
             IN  IF sum # singleChecksum(sysex)
                 THEN [ret |-> 0, error |-> error + 2,
                       printed |-> <<Msg("CHECKSUM FAILED: Should have been 0x%2.2X", <<sum>>)>>]
                 ELSE [ret |-> 0, error |-> error, printed |-> <<>>]
        ELSE [ret |-> 1, error |-> error, printed |-> <<>>]

(***************************************************************************)
(* Repair: the rewrite of the in-memory buffer done by FixFile.            *)
(***************************************************************************)
FixHeaderKeepsSubStatus(sysex) ==
    [sysex EXCEPT ![1] = 240, ![2] = 67, ![4] = 9, ![5] = 32, ![6] = 0]

FixHeader(sysex) ==
    [sysex EXCEPT ![1] = 240, ![2] = 67, ![3] = 0, ![4] = 9, ![5] = 32, ![6] = 0]

FixBufferNoChecksum(sysex) ==
    [FixHeader(sysex) EXCEPT ![sysexSize] = 247]

FixBufferShifted(sysex) ==
    LET h == FixHeader(sysex)
    IN  [h EXCEPT ![sysexSize - 1] = FinishSum(SumLoop(h, 7, 7 + rawDataSize, 0)),
                  ![sysexSize] = 247]

FixBufferClearsPayload(sysex) ==
    LET h == [FixHeader(sysex) EXCEPT ![7] = 0]
    IN  [h EXCEPT ![sysexSize - 1] = Checksum(h), ![sysexSize] = 247]

FixBuffer(sysex) ==
    LET h == FixHeader(sysex)
    IN  [h EXCEPT ![sysexSize - 1] = Checksum(h), ![sysexSize] = 247]

(***************************************************************************)
(* UnpackVoice: a packed voice is the sequence of its 128 bytes, an        *)
(* unpacked voice the sequence of its 155 bytes.  The bit-fields of a byte *)
(* are allocated from its least significant bit in the order they are      *)
(* declared, as the compilers of the Makefile's targets do.                *)
(***************************************************************************)
\* the bit-field of `width` bits that starts at bit `lo` of byte x
BitField(x, lo, width) == (x \div (2 ^ lo)) % (2 ^ width)

\* the loop body: o is the 17 bytes of op[i], the result the 21 bytes of
\* uVoice->op[i], in the order of struct OperatorUnpacked
UnpackOperator(o) ==
    SubSeq(o, 1, 11) \o
    << BitField(o[12], 0, 2),    \* scaleLeftCurve
       BitField(o[12], 2, 2),    \* scaleRightCurve
       BitField(o[13], 0, 3),    \* rateScale
       BitField(o[14], 0, 2),    \* amplitudeModulationSensitivity
       BitField(o[14], 2, 3),    \* keyVelocitySensitivity
       o[15],                    \* outputLevel
       BitField(o[16], 0, 1),    \* oscillatorMode
       BitField(o[16], 1, 5),    \* frequencyCoarse
       o[17],                    \* frequencyFine
       BitField(o[13], 3, 4) >>  \* detune

\* op[i] of the packed voice, i = 0..5
PackedOperator(pVoice, i) == SubSeq(pVoice, 17 * i + 1, 17 * i + 17)

\* the part of the voice after the operators
UnpackGlobals(pVoice) ==
    SubSeq(pVoice, 103, 110) \o
    << BitField(pVoice[111], 0, 5),   \* algorithm
       BitField(pVoice[112], 0, 3),   \* feedback
       BitField(pVoice[112], 3, 1) >> \* oscKeySync
    \o SubSeq(pVoice, 113, 116) \o
    << BitField(pVoice[117], 0, 1),   \* lfoSync
       BitField(pVoice[117], 1, 3),   \* lfoWave
       BitField(pVoice[117], 4, 3),   \* lfoPitchModSensitivity
       pVoice[118] >>                 \* transpose
    \o SubSeq(pVoice, 119, 128)       \* name

UnpackVoiceReversed(pVoice) ==
    UnpackOperator(PackedOperator(pVoice, 5)) \o UnpackOperator(PackedOperator(pVoice, 4))
        \o UnpackOperator(PackedOperator(pVoice, 3)) \o UnpackOperator(PackedOperator(pVoice, 2))
        \o UnpackOperator(PackedOperator(pVoice, 1)) \o UnpackOperator(PackedOperator(pVoice, 0))
        \o UnpackGlobals(pVoice)

UnpackVoice(pVoice) ==
    UnpackOperator(PackedOperator(pVoice, 0)) \o UnpackOperator(PackedOperator(pVoice, 1))
        \o UnpackOperator(PackedOperator(pVoice, 2)) \o UnpackOperator(PackedOperator(pVoice, 3))
        \o UnpackOperator(PackedOperator(pVoice, 4)) \o UnpackOperator(PackedOperator(pVoice, 5))
        \o UnpackGlobals(pVoice)

(***************************************************************************)
(* Duplicate detector: the pairs printed, in loop order, as 1-based voice  *)
(* numbers.                                                                *)
(***************************************************************************)
\* the first n bytes of voices[v], v = 0..31
VoiceBytes(sysex, v, n) ==
    SubSeq(sysex, 7 + v * SizeofVoicePacked, 6 + v * SizeofVoicePacked + n)

SameVoiceWholeRecord(sysex, i, j) ==
    VoiceBytes(sysex, i, SizeofVoicePacked) = VoiceBytes(sysex, j, SizeofVoicePacked)

\* the decoded parameters compared, the name set aside
SameVoiceDecoded(sysex, i, j) ==
    SubSeq(UnpackVoice(VoiceBytes(sysex, i, SizeofVoicePacked)), 1, SizeofVoiceUnpacked - 10)
        = SubSeq(UnpackVoice(VoiceBytes(sysex, j, SizeofVoicePacked)), 1, SizeofVoiceUnpacked - 10)

\* memcmp(&voices[i], &voices[j], sizeof(VoicePacked) - 10) == 0
SameVoice(sysex, i, j) ==
    VoiceBytes(sysex, i, SizeofVoicePacked - 10) = VoiceBytes(sysex, j, SizeofVoicePacked - 10)

DupesOfFromSelf(sysex, i) ==
    LET js == [k \in 1..(32 - i) |-> <<i + 1, i + k>>]
        hit(pair) == SameVoice(sysex, pair[1] - 1, pair[2] - 1)
    IN  SelectSeq(js, hit)

\* inner loop: for (j = i + 1; j < 32; ++j)
DupesOf(sysex, i) ==
    LET js == [k \in 1..(31 - i) |-> <<i + 1, i + k + 1>>]
        hit(pair) == SameVoice(sysex, pair[1] - 1, pair[2] - 1)
    IN  SelectSeq(js, hit)

\* outer loop: for (i = 0; i < 31; ++i)
RECURSIVE DupesFrom(_, _)
DupesFrom(sysex, i) ==
    IF i >= 31 THEN <<>> ELSE DupesOf(sysex, i) \o DupesFrom(sysex, i + 1)

FindDupes(sysex) == DupesFrom(sysex, 0)

(***************************************************************************)
(* State.                                                                  *)
(***************************************************************************)
VARIABLES
    fixFiles,         \* option --fix
    askToFix,         \* cleared by option -y
    noBackup,         \* option --no-backup
    findDupes,        \* option -i
    errorsOnly,       \* option -e
    disk,             \* the file named on the command line and its .ORIG backup
    fsize,            \* global fsize
    buffer,           \* global unsigned char buffer[sysexSize]
    msgBuffer,        \* global msgBuffer
    softError,        \* global softError
    sysexFile,        \* global sysexFile
    fixNeeded,        \* global fixNeeded
    singleVoiceFile,  \* global singleVoiceFile
    pc,               \* position in processFile
    ret,              \* value returned by processFile, -1 while it runs
    out,              \* lines printed so far
    trace             \* functions called so far, with their results

opts == <<fixFiles, askToFix, noBackup, findDupes, errorsOnly>>
globals == <<fsize, buffer, msgBuffer, softError, sysexFile, fixNeeded, singleVoiceFile>>
vars == <<opts, disk, globals, pc, ret, out, trace>>

\* a file: the bytes it holds, and the writes that wait in streams opened on
\* it and never closed (FixFile has no fclose): the offset they go to, the
\* bytes, and how many of them the system will take when the stream is
\* flushed at exit
NoFile == [exists |-> FALSE, data |-> <<>>, pending |-> <<>>]
File(data) == [exists |-> TRUE, data |-> data, pending |-> <<>>]

\* fopen(filename, "wb"): the file is created or cut to length 0
Truncated(f) == [exists |-> TRUE, data |-> <<>>, pending |-> f.pending]

\* write(2) of bytes at offset at; a gap reads as zeros
WriteAt(data, at, bytes) ==
    IF bytes = <<>> THEN data
    ELSE [i \in 1..(IF Len(data) > at + Len(bytes) THEN Len(data) ELSE at + Len(bytes)) |->
             IF i > at /\ i <= at + Len(bytes) THEN bytes[i - at]
             ELSE IF i <= Len(data) THEN data[i] ELSE 0]

\* exit flushes the streams from the one opened last to the one opened
\* first: where two of them write the same bytes of a file, the older wins
RECURSIVE FlushAll(_, _)
FlushAll(data, ps) ==
    IF ps = <<>> THEN data
    ELSE LET last == ps[Len(ps)]
         IN  FlushAll(WriteAt(data, last.at, SubSeq(last.bytes, 1, last.room)),
                      SubSeq(ps, 1, Len(ps) - 1))

\* the streams on the file flushed, as exit does
Flushed(f) ==
    IF f.exists THEN [exists |-> TRUE, data |-> FlushAll(f.data, f.pending), pending |-> <<>>]
    ELSE f

Call(fn, arg, r) == [fn |-> fn, arg |-> arg, ret |-> r]
Called(fn) == \E k \in 1..Len(trace) : trace[k].fn = fn

Fill(n, x) == [i \in 1..n |-> x]
ZeroBuffer == Fill(sysexSize, 0)

(***************************************************************************)
(* The files the model is run on.                                          *)
(***************************************************************************)
\* payloads: all zero but for the leading bytes; 129 has bit 7 set
LeadBytes == {0, 129}
Payloads ==
    {lead \o Fill(rawDataSize - NumLead, 0) : lead \in [1..NumLead -> LeadBytes]}
ZeroPayload == Fill(rawDataSize, 0)

StartBytes == {240, 0}
VendorBytes == {67, 0}
SubStatusBytes == {0, 1, 16}
FormatBytes == {9, 0}
SizePairs == {<<32, 0>>, <<32, 1>>}
EndBytes == {247, 0}

\* S: the sum of the bytes p[lo+1..hi], each masked to its low 7 bits, as an
\* unbounded integer
RECURSIVE Sum7(_, _, _)
Sum7(p, lo, hi) ==
    IF hi <= lo THEN 0
    ELSE IF hi = lo + 1 THEN p[hi] % 128
    ELSE Sum7(p, lo, (lo + hi) \div 2) + Sum7(p, (lo + hi) \div 2, hi)

\* the checksum byte the format asks for: the 7-bit value that brings S to 0
\* modulo 128
RightChecksum(p, lo, hi) == (128 - (Sum7(p, lo, hi) % 128)) % 128

\* each payload with the checksum byte the format asks for
Summed(payloads) == {<<p, RightChecksum(p, 0, rawDataSize)>> : p \in payloads}

\* a bank dump with the given envelope; ps is a payload with its checksum,
\* and the stored checksum is that checksum plus delta
BankFile(b0, b1, b2, b3, sz, ps, delta, e) ==
    <<b0, b1, b2, b3, sz[1], sz[2]>> \o ps[1] \o <<(ps[2] + delta) % 128, e>>

\* banks with canonical markers and every combination of the other fields
MarkedBankFiles ==
    {BankFile(240, 67, b2, b3, sz, p, d, 247) :
        b2 \in SubStatusBytes, b3 \in FormatBytes, sz \in SizePairs,
        p \in Summed(Payloads), d \in {0, 1}}

\* banks with at least one wrong marker
Markers == {m \in StartBytes \X VendorBytes \X EndBytes : m # <<240, 67, 247>>}
UnmarkedBankFiles ==
    {BankFile(m[1], m[2], 0, b3, <<32, 0>>, <<ZeroPayload, 0>>, 0, m[3]) :
        m \in Markers, b3 \in FormatBytes}

BankFiles == MarkedBankFiles \cup UnmarkedBankFiles

RawFiles == Payloads

SingleVoiceBytes == {0, 127}
\* a single voice dump with the given envelope bytes; the stored checksum is
\* the right one plus delta
SingleFile(b0, b2, x, delta, e) ==
    <<b0, 67, b2, 0, 1, 27>> \o Fill(SizeofVoiceUnpacked, x)
        \o <<(RightChecksum(Fill(SizeofVoiceUnpacked, x), 0, SizeofVoiceUnpacked) + delta) % 128, e>>

SingleFiles ==
    {SingleFile(b0, b2, x, d, 247) :
        b0 \in StartBytes, b2 \in {0, 1}, x \in SingleVoiceBytes, d \in {0, 1}}
        \cup {SingleFile(240, 0, 0, 0, 0)}

\* files of no known size, on both sides of each known size
OddSizes ==
    {0, singleSysexSize - 1, singleSysexSize + 1, rawDataSize - 1, rawDataSize + 1,
     sysexSize - 1, sysexSize + 1}
OddFiles == {Fill(n, 0) : n \in OddSizes}

InputFiles == BankFiles \cup RawFiles \cup SingleFiles \cup OddFiles

(***************************************************************************)
(* Start of the process: options and globals at their initialisers, lines  *)
(* 74-130, the file on disk.                                               *)
(***************************************************************************)
InitGlobals ==
    /\ fsize = 0
    /\ buffer = ZeroBuffer
    /\ msgBuffer = NoMsg
    /\ softError = FALSE
    /\ sysexFile = TRUE
    /\ fixNeeded = FALSE
    /\ singleVoiceFile = FALSE

Init ==
    /\ fixFiles = FALSE
    /\ askToFix = TRUE
    /\ noBackup = FALSE
    /\ findDupes = FALSE
    /\ errorsOnly = FALSE
    /\ \E data \in InputFiles : disk = [file |-> File(data), orig |-> NoFile]
    /\ InitGlobals
    /\ pc = "main"
    /\ ret = -1
    /\ out = <<>>
    /\ trace = <<>>

(***************************************************************************)
(* processOpts, lines 556-655: the options of the command line, in the     *)
(* order given.  given are the options that set a flag; last is what       *)
(* follows them: an option that ends the process, or the end of the        *)
(* options ("--").                                                         *)
(***************************************************************************)
\* puts(usageText), puts(optionsText), puts(versionText): one entry per line
usageText ==
    << "Usage: dx7dump [OPTIONS] FILE",
       "" >>

optionsText ==
    << "Options:",
       "  -d, --voicedata     show voice data lists",
       "  -l, --long          long listing format (one line per name or parameter)",
       "  -p NUM, --patch NUM show voice data list of patch number NUM",
       "  -f, --formfeed      use form-feed instead of patch separator line",
       "  --fix               try to fix corrupt files",
       "                        creates a backup of the original file (*.ORIG)",
       "  --no-backup         don't create backups when fixing files",
       "                        WARNING: This option might result in data-loss!",
       "                        make sure you already have a backup of the sysex-file",
       "  -n, --plain-names   print plain filenames",
       "  -y, --yes           no questions asked. Answer everything with YES for '--fix'",
       "  -e, --errors        report only files with errors",
       "  -x, --hex           show voice names also as HEX and print single voice data in HEX",
       "  -a, --ascii         use ASCII characters for voice-names, algorithms, and tables",
       "                        (default = Unicode)",
       "  -v, --version       version info",
       "  -h, --help          this help" >>

versionText ==
    << "Yamaha DX7 Sysex Dump Analyzer",
       "Copyright 2012, Ted Felix",
       "Modifications 2023, 2024: Bernhard Lex",
       "License GPLv3+" >>

Lines(text) == [k \in 1..Len(text) |-> Msg(text[k], <<>>)]

Flags == {"--fix", "-y", "--no-backup", "-D", "-e"}
\* "-?" stands for every argument getopt_long does not accept
LastOptions == {"--", "-v", "-h", "-o", "-?"}

processOpts ==
    /\ pc = "main"
    /\ \E given \in SUBSET Flags, last \in LastOptions :
          /\ fixFiles' = ("--fix" \in given)
          /\ askToFix' = ("-y" \notin given)
          /\ noBackup' = ("--no-backup" \in given)
          /\ findDupes' = ("-D" \in given)
          /\ errorsOnly' = ("-e" \in given)
          /\ CASE last = "-v" ->
                    /\ out' = <<Msg("dx7dump %s", <<>>)>> \o Lines(versionText)
                    /\ ret' = 0
                    /\ pc' = "exited"
               [] last = "-h" ->
                    /\ out' = Lines(usageText) \o Lines(optionsText)
                    /\ ret' = 0
                    /\ pc' = "exited"
               [] last = "-o" ->
                    /\ out' = Lines(optionsText)
                    /\ ret' = 0
                    /\ pc' = "exited"
               [] last = "-?" ->
                    /\ out' = <<Msg("Try -h for help.", <<>>)>>
                    /\ ret' = 1
                    /\ pc' = "exited"
               [] OTHER ->
                    /\ pc' = "opts"
                    /\ UNCHANGED <<ret, out>>
    /\ UNCHANGED <<disk, globals, trace>>

(***************************************************************************)
(* main, lines 1775-1782: named says whether an argument is left after the *)
(* options.                                                                *)
(***************************************************************************)
main ==
    /\ pc = "opts"
    /\ \E named \in BOOLEAN :
          IF ~named
          THEN /\ out' = Append(out, Msg("Expecting a filename.", <<>>))
               /\ ret' = 1
               /\ pc' = "done"
          ELSE /\ pc' = "ingest"
               /\ UNCHANGED <<ret, out>>
    /\ UNCHANGED <<opts, disk, globals, trace>>

FileNameLine == Msg("File: \"%s\"", <<>>)

Return(r) == ret' = r /\ pc' = "done"

(***************************************************************************)
(* processFile, lines 1627-1689: open, measure, classify by length, read.  *)
(***************************************************************************)
\* fread(buffer, size, 1, file) stores the bytes it gets, got of them, and
\* returns 1 only when it got them all: the file may have been cut since it
\* was measured
ReadCounts(size) == {n \in {0, 100, 4000, size - 1, size} : n >= 0 /\ n <= size}

ReadBank(data, got) ==
    /\ buffer' = SubSeq(data, 1, got) \o SubSeq(buffer, got + 1, sysexSize)
    /\ IF got = sysexSize
       THEN /\ pc' = "verify"
            /\ UNCHANGED <<ret, out, softError, sysexFile, fixNeeded, singleVoiceFile>>
       ELSE /\ out' = out \o <<FileNameLine, Msg("File read error", <<>>)>>
            /\ Return(1)
            /\ UNCHANGED <<softError, sysexFile, fixNeeded, singleVoiceFile>>

ReadRawValidated(data, got) ==
    /\ buffer' = SubSeq(buffer, 1, 6) \o SubSeq(data, 1, got)
                     \o SubSeq(buffer, 7 + got, sysexSize)
    /\ IF got = rawDataSize
       THEN
         /\ out' = out \o <<FileNameLine,
                            Msg("WARNING: file seems to be a headerless dump (%d Bytes)", <<Len(data)>>)>>
         /\ softError' = TRUE
         /\ fixNeeded' = TRUE
         /\ pc' = "verify"
         /\ UNCHANGED <<ret, sysexFile, singleVoiceFile>>
       ELSE
         /\ out' = out \o <<FileNameLine, Msg("File read error", <<>>),
                            Msg("File too small (%d Bytes)", <<Len(data)>>)>>
         /\ Return(1)
         /\ UNCHANGED <<softError, sysexFile, fixNeeded, singleVoiceFile>>

ReadRaw(data, got) ==
    /\ buffer' = SubSeq(buffer, 1, 6) \o SubSeq(data, 1, got)
                     \o SubSeq(buffer, 7 + got, sysexSize)
    /\ IF got = rawDataSize
       THEN
         /\ out' = out \o <<FileNameLine,
                            Msg("WARNING: file seems to be a headerless dump (%d Bytes)", <<Len(data)>>)>>
         /\ softError' = TRUE
         /\ sysexFile' = FALSE
         /\ fixNeeded' = TRUE
         /\ pc' = "verify"
         /\ UNCHANGED <<ret, singleVoiceFile>>
       ELSE
         /\ out' = out \o <<FileNameLine, Msg("File read error", <<>>),
                            Msg("File too small (%d Bytes)", <<Len(data)>>)>>
         /\ Return(1)
         /\ UNCHANGED <<softError, sysexFile, fixNeeded, singleVoiceFile>>

ReadSingle(data, got) ==
    /\ buffer' = SubSeq(data, 1, got) \o SubSeq(buffer, got + 1, sysexSize)
    /\ IF got = singleSysexSize
       THEN /\ singleVoiceFile' = TRUE
            /\ pc' = "single"
            /\ UNCHANGED <<ret, out, softError, sysexFile, fixNeeded>>
       ELSE /\ out' = out \o <<FileNameLine, Msg("File read error", <<>>)>>
            /\ Return(1)
            /\ UNCHANGED <<softError, sysexFile, fixNeeded, singleVoiceFile>>

WrongSizeOffByOne(size) ==
    /\ out' = out \o <<FileNameLine,
                       IF size >= sysexSize - 1
                       THEN Msg("File too big (%d Bytes)", <<size>>)
                       ELSE Msg("File too small (%d Bytes)", <<size>>)>>
    /\ Return(1)
    /\ UNCHANGED <<buffer, softError, sysexFile, fixNeeded, singleVoiceFile>>

WrongSize(size) ==
    /\ out' = out \o <<FileNameLine,
                       IF size > sysexSize
                       THEN Msg("File too big (%d Bytes)", <<size>>)
                       ELSE Msg("File too small (%d Bytes)", <<size>>)>>
    /\ Return(1)
    /\ UNCHANGED <<buffer, softError, sysexFile, fixNeeded, singleVoiceFile>>

Ingest ==
    /\ pc = "ingest"
    /\ \E openOk \in BOOLEAN, got \in ReadCounts(Len(disk.file.data)) :
        IF ~(disk.file.exists /\ openOk)
        THEN /\ out' = Append(out, Msg("ERROR: Can't open the file: %s", <<>>))
             /\ Return(1)
             /\ UNCHANGED globals
        ELSE LET data == disk.file.data
                 size == Len(data)
             IN  /\ fsize' = size
                 /\ IF size = sysexSize THEN ReadBank(data, got)
                    ELSE IF size = rawDataSize THEN ReadRaw(data, got)
                    ELSE IF size = singleSysexSize THEN ReadSingle(data, got)
                    ELSE WrongSize(size)
    /\ UNCHANGED <<opts, disk, msgBuffer, trace>>

(***************************************************************************)
(* processFile, lines 1691-1708: the single voice path.                    *)
(***************************************************************************)
SingleVoiceFallsThrough ==
    /\ pc = "single"
    /\ \E v \in {VerifySingle(buffer)} :
           /\ trace' = Append(trace, Call("VerifySingle", v.error, v.ret))
           /\ out' = out \o <<FileNameLine>> \o v.printed \o
                     <<IF v.ret = 0
                       THEN Msg("File is a Single Voice Dump: \"%10s\"", <<>>)
                       ELSE Msg("File too small (%d Bytes)", <<fsize>>)>>
    /\ pc' = "verify"
    /\ UNCHANGED <<opts, disk, globals, ret>>

SingleVoice ==
    /\ pc = "single"
    /\ \E v \in {VerifySingle(buffer)} :
           /\ trace' = Append(trace, Call("VerifySingle", v.error, v.ret))
           /\ out' = out \o <<FileNameLine>> \o v.printed \o
                     <<IF v.ret = 0
                       THEN Msg("File is a Single Voice Dump: \"%10s\"", <<>>)
                       ELSE Msg("File too small (%d Bytes)", <<fsize>>)>>
    /\ Return(1)
    /\ UNCHANGED <<opts, disk, globals>>

(***************************************************************************)
(* processFile, lines 1710-1729: validation of a bank.                     *)
(***************************************************************************)
\* `Verify(sysex) != 0`
FatalIgnored(r) == FALSE
Fatal(r) == r # 0

VerifyBank ==
    /\ pc = "verify"
    /\ IF sysexFile
       THEN \E v \in {Verify(buffer, msgBuffer, fixNeeded)} :
                /\ trace' = Append(trace, Call("Verify", 0, v.ret))
                /\ msgBuffer' = v.msgBuffer
                /\ fixNeeded' = v.fixNeeded
                /\ IF Fatal(v.ret)
                   THEN /\ out' = out \o <<FileNameLine, v.msgBuffer>>
                        /\ Return(1)
                        /\ UNCHANGED softError
                   ELSE /\ IF v.msgBuffer # NoMsg
                           THEN /\ softError' = TRUE
                                /\ out' = out \o <<FileNameLine, v.msgBuffer>>
                           ELSE UNCHANGED <<softError, out>>
                        /\ pc' = "render"
                        /\ UNCHANGED ret
       ELSE /\ IF msgBuffer # NoMsg
               THEN /\ softError' = TRUE
                    /\ out' = out \o <<FileNameLine, msgBuffer>>
               ELSE UNCHANGED <<softError, out>>
            /\ pc' = "render"
            /\ UNCHANGED <<trace, msgBuffer, fixNeeded, ret>>
    /\ UNCHANGED <<opts, disk, fsize, buffer, sysexFile, singleVoiceFile>>

(***************************************************************************)
(* processFile, lines 1731-1739: rendering.                                *)
(***************************************************************************)
\* the table of the build (USE_UNICODE_DEFAULT is defined): one string for
\* each byte value; a character outside ASCII, and the backquote, is written
\* as its code point
lcdTableUnicode ==
    << "U+2081", "U+2082", "U+2083", "U+2084", "U+2085", "U+2086", "U+2087", "U+2088", "U+2081", "U+2082", "U+2083", "U+2084", "U+2085", "U+2086", "U+2087", "U+2088",
       " ", " ", " ", " ", " ", " ", " ", " ", " ", " ", " ", " ", " ", " ", " ", " ",
       " ", "!", "\"", "#", "$", "%", "&", "'", "(", ")", "*", "+", ",", "-", ".", "/",
       "0", "1", "2", "3", "4", "5", "6", "7", "8", "9", ":", ";", "<", "=", ">", "?",
       "@", "A", "B", "C", "D", "E", "F", "G", "H", "I", "J", "K", "L", "M", "N", "O",
       "P", "Q", "R", "S", "T", "U", "V", "W", "X", "Y", "Z", "[", "U+00A5", "]", "^", "_",
       "U+0060", "a", "b", "c", "d", "e", "f", "g", "h", "i", "j", "k", "l", "m", "n", "o",
       "p", "q", "r", "s", "t", "u", "v", "w", "x", "y", "z", "{", "|", "}", "U+2192", "U+2190",
       " ", " ", " ", " ", " ", " ", " ", " ", " ", " ", " ", " ", " ", " ", " ", " ",
       " ", " ", " ", " ", " ", " ", " ", " ", " ", " ", " ", " ", " ", " ", " ", " ",
       " ", "U+2218", "U+2308", "U+230B", "~", "U+22C5", "~", "~", "~", "~", "~", "~", "~", "~", "~", "~",
       "-", "~", "~", "~", "~", "~", "~", "~", "~", "~", "~", "~", "~", "~", "~", "~",
       "~", "~", "~", "~", "~", "~", "~", "~", "~", "~", "~", "~", "~", "~", "~", "~",
       "~", "~", "~", "~", "~", "~", "~", "~", "~", "~", "~", "~", "~", "~", "~", "U+00B0",
       "U+221D", "U+00E4", "U+00DF", "U+03B5", "U+03BC", "U+03C3", "U+03C1", "g", "U+221A", "~", "j", "U+00D7", "U+00A2", "U+20A4", "U+00F1", "U+00F6",
       "p", "q", "U+03F4", "U+221E", "U+2126", "U+00FC", "U+03A3", "U+03C0", "U+1E8D", "y", "~", "~", "~", "U+00F7", " ", "U+2588" >>

\* strcat of the 10 table strings
Name2Ascii(nameLcd) == [i \in 1..10 |-> lcdTableUnicode[nameLcd[i] + 1]]

\* voices[v].name, v = 0..31
VoiceName(sysex, v) ==
    SubSeq(sysex, 6 + v * SizeofVoicePacked + 119, 6 + v * SizeofVoicePacked + 128)

\* one row of the listing: 4 columns of 8 rows, printf("%2d %c%10s%c ") for
\* each voice and 9 blanks between two columns
FormatRow(sysex, row) ==
    LET cell(column) ==
            << column * 8 + row + 1, "|", Name2Ascii(VoiceName(sysex, column * 8 + row)), "|" >>
    IN  Msg("%2d %c%10s%c          %2d %c%10s%c          %2d %c%10s%c          %2d %c%10s%c ",
            cell(0) \o cell(1) \o cell(2) \o cell(3))

\* Format with the options at their defaults (names only, tabular, no hex):
\* the lines it prints
Format(sysex, soft) ==
    (IF ~soft THEN <<FileNameLine>> ELSE <<>>)
        \o [r \in 1..8 |-> FormatRow(sysex, r - 1)]
        \o <<Msg("", <<>>)>>

Render ==
    /\ pc = "render"
    /\ IF ~errorsOnly
       THEN /\ trace' = Append(trace, Call("Format", 0, 0))
            /\ out' = out \o Format(buffer, softError)
       ELSE /\ out' = IF softError THEN Append(out, Msg("", <<>>)) ELSE out
            /\ UNCHANGED trace
    /\ pc' = "fix"
    /\ UNCHANGED <<opts, disk, globals, ret>>

(***************************************************************************)
(* FixFile: the buffer rewrite, the optional backup rename, the rewrite of *)
(* the file.  d is the disk before the call, nb the option noBackup;       *)
(* renameOk, openOk and written are what the operating system answers:     *)
(* whether rename and fopen succeed and how many bytes fwrite gets out.    *)
(***************************************************************************)
\* fwrite hands the whole blocks of 4096 bytes to the system at once and keeps
\* the 8 bytes that remain in the stream, which FixFile does not close: they
\* are written when the process exits.  written is the number of bytes the
\* system lets the file hold (all of them, or fewer under a size limit);
\* fwrite fails only when a whole block is refused.
WrittenCounts == {0, 6, 100, 4095, 4096, 4100, 4103, sysexSize}

\* the file after fwrite(sysex, sysexSize, 1, file) on the just opened file f
Written(f, b, written) ==
    IF written < 4096
    THEN [f EXCEPT !.data = SubSeq(b, 1, written)]
    ELSE [f EXCEPT !.data = SubSeq(b, 1, 4096),
                   !.pending = Append(@, [at |-> 4096, bytes |-> SubSeq(b, 4097, sysexSize),
                                          room |-> written - 4096])]

FixFileIOWritesAnyway(b, d, nb, renameOk, openOk, written) ==
    LET renamed == ~nb /\ renameOk /\ d.file.exists
        d1 == IF renamed THEN [file |-> NoFile, orig |-> d.file] ELSE d
    IN  IF ~openOk
        THEN [buffer |-> b, disk |-> d1, ret |-> 1,
              printed |-> <<Msg("Can't open the file for writing: %s. %s", <<>>)>>]
        ELSE IF ~nb /\ ~renamed
        THEN [buffer |-> b,
              disk |-> [d EXCEPT !.file = Written(Truncated(d.file), b, sysexSize)],
              ret |-> 1,
              printed |-> <<Msg("File could not be renamed for backup. File-fix aborted. %s", <<>>)>>]
        ELSE IF written < 4096
        THEN [buffer |-> b,
              disk |-> [d1 EXCEPT !.file = Written(Truncated(d1.file), b, written)],
              ret |-> 1,
              printed |-> <<Msg("Error writing to file: %s. %s", <<>>)>>]
        ELSE [buffer |-> b,
              disk |-> [d1 EXCEPT !.file = Written(Truncated(d1.file), b, written)],
              ret |-> 0,
              printed |-> <<>>]

\* lines 729-755, on the rewritten buffer b
FixFileIO(b, d, nb, renameOk, openOk, written) ==
    LET renamed == ~nb /\ renameOk /\ d.file.exists
        d1 == IF renamed THEN [file |-> NoFile, orig |-> d.file] ELSE d
    IN  IF ~nb /\ ~renamed
        THEN [buffer |-> b, disk |-> d, ret |-> 1,
              printed |-> <<Msg("File could not be renamed for backup. File-fix aborted. %s", <<>>)>>]
        ELSE IF ~openOk
        THEN [buffer |-> b, disk |-> d1, ret |-> 1,
              printed |-> <<Msg("Can't open the file for writing: %s. %s", <<>>)>>]
        ELSE IF written < 4096
        THEN [buffer |-> b,
              disk |-> [d1 EXCEPT !.file = Written(Truncated(d1.file), b, written)],
              ret |-> 1,
              printed |-> <<Msg("Error writing to file: %s. %s", <<>>)>>]
        ELSE [buffer |-> b,
              disk |-> [d1 EXCEPT !.file = Written(Truncated(d1.file), b, written)],
              ret |-> 0,
              printed |-> <<>>]

FixFile(sysex, d, nb, renameOk, openOk, written) ==
    FixFileIO(FixBuffer(sysex), d, nb, renameOk, openOk, written)

(***************************************************************************)
(* processFile, lines 1741-1755: the confirmation and the repair.  The     *)
(* prompt is printed and fgets waits for the answer; FixFile is called     *)
(* when the answer is there, on the file as it is then.                    *)
(***************************************************************************)
\* the first character typed at the prompt
Answers == {"Y", "N", "n"}
PromptLine == Msg("Fix this file? [Y/n] ", <<>>)

\* `choice[0] == 'N' || choice[0] == 'n'`
DeclinedUpperOnly(choice) == choice = "N"
Declined(choice) == choice = "N" \/ choice = "n"

\* line 754, FixFile(sysex, filename), its result dropped
CallFixFileOf(b, asked) ==
    \E renameOk \in BOOLEAN, openOk \in BOOLEAN, written \in WrittenCounts :
        \E f \in {FixFileIO(b, disk, noBackup, renameOk, openOk, written)} :
            /\ buffer' = f.buffer
            /\ disk' = f.disk
            /\ trace' = trace \o asked \o <<Call("FixFile", 0, f.ret)>>
            /\ out' = out \o f.printed
            /\ pc' = "dupes"
            /\ UNCHANGED ret

\* lines 1742-1747: the prompt; with -y, line 1754 at once
Fix ==
    /\ pc = "fix"
    /\ IF fixFiles /\ fixNeeded
       THEN IF askToFix
            THEN /\ out' = Append(out, PromptLine)
                 /\ pc' = "ask"
                 /\ UNCHANGED <<buffer, disk, trace, ret>>
            ELSE \E b \in {FixBuffer(buffer)} : CallFixFileOf(b, <<>>)
       ELSE /\ pc' = "dupes"
            /\ UNCHANGED <<buffer, disk, trace, out, ret>>
    /\ UNCHANGED <<opts, fsize, msgBuffer, softError, sysexFile, fixNeeded, singleVoiceFile>>

\* lines 1748-1754: fgets returns with the answer
Asked ==
    /\ pc = "ask"
    /\ \E choice \in Answers :
          IF Declined(choice)
          THEN /\ trace' = Append(trace, Call("fgets", 0, choice))
               /\ Return(0)
               /\ UNCHANGED <<buffer, disk, out>>
          ELSE \E b \in {FixBuffer(buffer)} :
                  CallFixFileOf(b, <<Call("fgets", 0, choice)>>)
    /\ UNCHANGED <<opts, fsize, msgBuffer, softError, sysexFile, fixNeeded, singleVoiceFile>>

\* While fgets waits, line 1748, the file belongs to whoever writes it:
\* another process puts other bytes, as many, in its place.
OtherContent(data) == [i \in 1..Len(data) |-> 85]

OtherProcess ==
    /\ pc = "ask"
    /\ disk.file.exists
    /\ disk.file.data # OtherContent(disk.file.data)
    /\ disk' = [disk EXCEPT !.file = File(OtherContent(disk.file.data))]
    /\ UNCHANGED <<opts, globals, pc, ret, out, trace>>

(***************************************************************************)
(* processFile, lines 1757-1760: duplicate detection, return.              *)
(***************************************************************************)
Dupes ==
    /\ pc = "dupes"
    /\ IF findDupes
       THEN \E found \in {FindDupes(buffer)} :
                /\ trace' = Append(trace, Call("FindDupes", 0, Len(found)))
                /\ out' = out \o [k \in 1..Len(found) |->
                                    Msg("Found duplicate: %d = %d", found[k])]
                              \o (IF found # <<>> THEN <<Msg("", <<>>)>> ELSE <<>>)
       ELSE UNCHANGED <<trace, out>>
    /\ Return(0)
    /\ UNCHANGED <<opts, disk, globals>>

(***************************************************************************)
(* main, lines 1777-1791: main returns, after processFile or for want of a *)
(* file name, and the process exits: the streams still open are flushed.   *)
(***************************************************************************)
Exit ==
    /\ pc = "done"
    /\ pc' = "exited"
    /\ disk' = [file |-> Flushed(disk.file), orig |-> Flushed(disk.orig)]
    /\ UNCHANGED <<opts, globals, ret, out, trace>>

Next ==
    \/ processOpts \/ main
    \/ Ingest \/ SingleVoice \/ VerifyBank \/ Render
    \/ Fix \/ Asked \/ OtherProcess
    \/ Dupes \/ Exit

Spec == Init /\ [][Next]_vars

(***************************************************************************)
(* The checksum functions on their own: each is called once on a buffer.   *)
(***************************************************************************)
\* the spans ChecksumSingle is called with
Spans == {0, 1, 2, 3, SizeofVoiceUnpacked, rawDataSize}

ChecksumLeadBytes == {0, 1, 128, 255}
ChecksumFillBytes == {0, 127, 255}
ChecksumInputs ==
    {BankFile(240, 67, 0, 9, <<32, 0>>, <<lead \o Fill(rawDataSize - NumLead, fill), cs>>, 0, 247) :
        lead \in [1..NumLead -> ChecksumLeadBytes], fill \in ChecksumFillBytes,
        cs \in {0, 127}}

ChecksumInit ==
    /\ fixFiles = FALSE /\ askToFix = TRUE /\ noBackup = FALSE
    /\ findDupes = FALSE /\ errorsOnly = FALSE
    /\ InitGlobals
    /\ \E data \in ChecksumInputs : disk = [file |-> File(data), orig |-> NoFile]
    /\ pc = "checksum"
    /\ ret = -1
    /\ out = <<>>
    /\ trace = <<>>

\* Checksum((DX7Sysex *)file)
CallChecksum ==
    /\ pc = "checksum"
    /\ trace' = Append(trace, Call("Checksum", rawDataSize, Checksum(disk.file.data)))
    /\ pc' = "done"
    /\ UNCHANGED <<opts, disk, globals, ret, out>>

\* ChecksumSingle((VoiceUnpacked *)(file + 6), blocksize)
CallChecksumSingle ==
    /\ pc = "checksum"
    /\ \E blocksize \in Spans, voice \in {voices(disk.file.data)} :
          trace' = Append(trace, Call("ChecksumSingle", blocksize,
                                      ChecksumSingle(voice, blocksize)))
    /\ pc' = "done"
    /\ UNCHANGED <<opts, disk, globals, ret, out>>

ChecksumNext == CallChecksum \/ CallChecksumSingle

ChecksumSpec == ChecksumInit /\ [][ChecksumNext]_vars

(***************************************************************************)
(* Verify and FixFile on their own: called, in any order, on a buffer      *)
(* holding any bank-sized file.                                            *)
(***************************************************************************)
\* the markers: right, one of them wrong, all of them wrong
CallMarkers ==
    {<<240, 67, 247>>, <<0, 67, 247>>, <<240, 0, 247>>, <<240, 67, 0>>, <<0, 0, 0>>}
CallPayloads == {ZeroPayload, <<129>> \o Fill(rawDataSize - 1, 0)}
AnyBankFiles ==
    {BankFile(m[1], m[2], b2, b3, sz, p, d, m[3]) :
        m \in CallMarkers, b2 \in SubStatusBytes, b3 \in FormatBytes,
        sz \in SizePairs, p \in Summed(CallPayloads), d \in {0, 1}}

CallInit ==
    /\ fixFiles = FALSE /\ askToFix = TRUE /\ noBackup = FALSE
    /\ findDupes = FALSE /\ errorsOnly = FALSE
    /\ \E data \in AnyBankFiles :
          /\ disk = [file |-> File(data), orig |-> NoFile]
          /\ buffer = data
    /\ fsize = sysexSize
    /\ msgBuffer = NoMsg
    /\ softError = FALSE
    /\ sysexFile = TRUE
    /\ fixNeeded = FALSE
    /\ singleVoiceFile = FALSE
    /\ pc = "calls"
    /\ ret = -1
    /\ out = <<>>
    /\ trace = <<>>

\* Verify((DX7Sysex *)buffer)
CallVerify ==
    /\ pc = "calls"
    /\ Len(trace) < MaxCalls
    /\ \E v \in {Verify(buffer, msgBuffer, fixNeeded)} :
          /\ trace' = Append(trace, Call("Verify", 0, v.ret))
          /\ msgBuffer' = v.msgBuffer
          /\ fixNeeded' = v.fixNeeded
    /\ UNCHANGED <<opts, disk, fsize, buffer, softError, sysexFile, singleVoiceFile,
                   pc, ret, out>>

\* FixFile((DX7Sysex *)buffer, filename), with a write that stops after 6
\* bytes or is taken whole
CallWrittenCounts == {6, sysexSize}

CallFixFile ==
    /\ pc = "calls"
    /\ Len(trace) < MaxCalls
    /\ \E b \in {FixBuffer(buffer)}, renameOk \in BOOLEAN, openOk \in BOOLEAN,
          written \in CallWrittenCounts :
          \E f \in {FixFileIO(b, disk, noBackup, renameOk, openOk, written)} :
             /\ buffer' = f.buffer
             /\ disk' = f.disk
             /\ trace' = Append(trace, Call("FixFile", 0, f.ret))
             /\ out' = out \o f.printed
    /\ UNCHANGED <<opts, fsize, msgBuffer, softError, sysexFile, fixNeeded,
                   singleVoiceFile, pc, ret>>

CallNext == CallVerify \/ CallFixFile

CallSpec == CallInit /\ [][CallNext]_vars

(***************************************************************************)
(* The same calls on banks with a canonical envelope or a wrong format     *)
(* byte, whose payload has bit 7 set in the first byte, in all the other   *)
(* bytes, in both or in none.                                              *)
(***************************************************************************)
Bit7LeadBytes == {0, 1, 128, 129}
Bit7FillBytes == {0, 255}
Bit7Payloads ==
    {<<l>> \o Fill(rawDataSize - 1, f) : l \in Bit7LeadBytes, f \in Bit7FillBytes}
Bit7BankFiles ==
    {BankFile(240, 67, 0, b3, <<32, 0>>, p, d, 247) :
        b3 \in FormatBytes, p \in Summed(Bit7Payloads), d \in {0, 1}}

Bit7Init ==
    /\ fixFiles = FALSE /\ askToFix = TRUE /\ noBackup = FALSE
    /\ findDupes = FALSE /\ errorsOnly = FALSE
    /\ \E data \in Bit7BankFiles :
          /\ disk = [file |-> File(data), orig |-> NoFile]
          /\ buffer = data
    /\ fsize = sysexSize
    /\ msgBuffer = NoMsg
    /\ softError = FALSE
    /\ sysexFile = TRUE
    /\ fixNeeded = FALSE
    /\ singleVoiceFile = FALSE
    /\ pc = "calls"
    /\ ret = -1
    /\ out = <<>>
    /\ trace = <<>>

Bit7Spec == Bit7Init /\ [][CallNext]_vars

(***************************************************************************)
(* FindDupes on its own: called once on a buffer holding a bank.           *)
(***************************************************************************)
\* The banks: either every voice differs from every other in its first byte,
\* or all voices are zero; then voice b is made a copy of voice a, and byte k
\* (1..128, 0 for none) of voice c, one of the two, is set to 77, a value found
\* nowhere else.  Bytes 119..128 of a voice are its name.
DupeBackgrounds == {"distinct", "same"}
DupeVoicePairs == {<<0, 1>>, <<0, 15>>, <<0, 31>>, <<1, 15>>, <<1, 31>>, <<30, 31>>}
DupeOffsets == {0, 1, 2, 118, 119, 128}

DupePayload(bg, a, b, c, k) ==
    [n \in 1..rawDataSize |->
        LET v == (n - 1) \div SizeofVoicePacked
            o == ((n - 1) % SizeofVoicePacked) + 1
        IN  IF v = c /\ o = k THEN 77
            ELSE IF o = 1 /\ bg = "distinct" THEN (IF v = b THEN a + 1 ELSE v + 1)
            ELSE 0]

\* the same banks with, instead of the 77, an unused bit set in a bit-field
\* byte of voice c: bit 4 of byte 12 (the curves of the first operator), bit 5
\* of byte 111 (algorithm), bit 7 of byte 117 (the LFO fields)
DupePaddingBits == {<<12, 16>>, <<111, 32>>, <<117, 128>>}
PaddingPayload(bg, a, b, c, pad) ==
    [DupePayload(bg, a, b, c, 0) EXCEPT ![c * SizeofVoicePacked + pad[1]] = pad[2]]

DupePayloads ==
    {DupePayload(bg, ab[1], ab[2], ab[c], k) :
        bg \in DupeBackgrounds, ab \in DupeVoicePairs, c \in {1, 2}, k \in DupeOffsets}
    \cup
    {PaddingPayload(bg, ab[1], ab[2], ab[c], pad) :
        bg \in DupeBackgrounds, ab \in {<<0, 1>>, <<0, 31>>, <<30, 31>>}, c \in {1, 2},
        pad \in DupePaddingBits}

DupeInputs ==
    {BankFile(240, 67, 0, 9, <<32, 0>>, ps, 0, 247) : ps \in Summed(DupePayloads)}

DupesInit ==
    /\ fixFiles = FALSE /\ askToFix = TRUE /\ noBackup = FALSE
    /\ findDupes = TRUE /\ errorsOnly = FALSE
    /\ \E data \in DupeInputs :
          /\ disk = [file |-> File(data), orig |-> NoFile]
          /\ buffer = data
    /\ fsize = sysexSize
    /\ msgBuffer = NoMsg
    /\ softError = FALSE
    /\ sysexFile = TRUE
    /\ fixNeeded = FALSE
    /\ singleVoiceFile = FALSE
    /\ pc = "finddupes"
    /\ ret = -1
    /\ out = <<>>
    /\ trace = <<>>

\* FindDupes((DX7Sysex *)buffer)
CallFindDupes ==
    /\ pc = "finddupes"
    /\ \E found \in {FindDupes(buffer)} :
          /\ trace' = Append(trace, Call("FindDupes", 0, Len(found)))
          /\ out' = out \o [k \in 1..Len(found) |->
                              Msg("Found duplicate: %d = %d", found[k])]
                        \o (IF found # <<>> THEN <<Msg("", <<>>)>> ELSE <<>>)
    /\ pc' = "done"
    /\ UNCHANGED <<opts, disk, globals, ret>>

DupesNext == CallFindDupes

DupesSpec == DupesInit /\ [][DupesNext]_vars

(***************************************************************************)
(* UnpackVoice on its own: called once, as Format calls it on a voice of   *)
(* the bank.                                                               *)
(***************************************************************************)
\* the packed voices: every byte has the same value but one, which takes
\* every value
UnpackFillBytes == {0, 255}
UnpackOffsets == 1..SizeofVoicePacked

UnpackInit ==
    /\ fixFiles = FALSE /\ askToFix = TRUE /\ noBackup = FALSE
    /\ findDupes = FALSE /\ errorsOnly = FALSE
    /\ InitGlobals
    /\ disk = [file |-> NoFile, orig |-> NoFile]
    /\ pc = "unpack"
    /\ ret = -1
    /\ out = <<>>
    /\ trace = <<>>

\* UnpackVoice(uVoice, voice)
CallUnpackVoice ==
    /\ pc = "unpack"
    /\ \E fill \in UnpackFillBytes, o \in UnpackOffsets, x \in Byte :
          \E pVoice \in {[Fill(SizeofVoicePacked, fill) EXCEPT ![o] = x]} :
             trace' = Append(trace, Call("UnpackVoice", pVoice, UnpackVoice(pVoice)))
    /\ pc' = "done"
    /\ UNCHANGED <<opts, disk, globals, ret, out>>

UnpackNext == CallUnpackVoice

UnpackSpec == UnpackInit /\ [][UnpackNext]_vars

(***************************************************************************)
(* VerifySingle on its own, in both revisions of the program: v1.03a       *)
(* above, and v1.01 (dx7dump.cpp), which has the checks in one condition.  *)
(***************************************************************************)
\* C's `==` yields the int 1 or 0
EqInt(a, b) == IF a = b THEN 1 ELSE 0

\* `sysex->subStatusAndChannel & 0xF0 == 0` as an operand of &&: == binds
\* tighter than &, so the byte is and-ed with the int (0xF0 == 0)
SubStatusTestV101(x) == BitAnd(x, EqInt(240, 0)) # 0

\* the return value
VerifySingleV101(sysex) ==
    IF /\ sysexBeginF0(sysex) = 240
       /\ yamaha43(sysex) = 67
       /\ SubStatusTestV101(subStatusAndChannel(sysex))
       /\ format9(sysex) = 0
       /\ sizeMSB(sysex) = 1
       /\ sizeLSB(sysex) = 27
       /\ singleEndF7(sysex) = 247
    THEN 0
    ELSE 1

\* single voice dumps with every combination of right and wrong envelope
\* bytes; the stored checksum is the right one plus delta
SingleHeaders ==
    {<<b0, b1, b2, b3, b4, b5>> :
        b0 \in StartBytes, b1 \in VendorBytes, b2 \in SubStatusBytes,
        b3 \in {0, 9}, b4 \in {1, 32}, b5 \in {27, 0}}
SingleDump(h, x, delta, e) ==
    h \o Fill(SizeofVoiceUnpacked, x)
      \o <<(RightChecksum(Fill(SizeofVoiceUnpacked, x), 0, SizeofVoiceUnpacked) + delta) % 128, e>>
SingleDumps ==
    {SingleDump(h, x, d, e) :
        h \in SingleHeaders, x \in SingleVoiceBytes, d \in {0, 1}, e \in EndBytes}

SingleInit ==
    /\ fixFiles = FALSE /\ askToFix = TRUE /\ noBackup = FALSE
    /\ findDupes = FALSE /\ errorsOnly = FALSE
    /\ \E data \in SingleDumps :
          /\ disk = [file |-> File(data), orig |-> NoFile]
          /\ buffer = data \o SubSeq(ZeroBuffer, singleSysexSize + 1, sysexSize)
    /\ fsize = singleSysexSize
    /\ msgBuffer = NoMsg
    /\ softError = FALSE
    /\ sysexFile = TRUE
    /\ fixNeeded = FALSE
    /\ singleVoiceFile = TRUE
    /\ pc = "singlecall"
    /\ ret = -1
    /\ out = <<>>
    /\ trace = <<>>

\* VerifySingle((DX7SingleSysex *)buffer), v1.03a
CallVerifySingle ==
    /\ pc = "singlecall"
    /\ \E v \in {VerifySingle(buffer)} :
          /\ trace' = Append(trace, Call("VerifySingle", v.error, v.ret))
          /\ out' = out \o v.printed
    /\ pc' = "done"
    /\ UNCHANGED <<opts, disk, globals, ret>>

\* VerifySingle((DX7SingleSysex *)buffer), v1.01
CallVerifySingleV101 ==
    /\ pc = "singlecall"
    /\ trace' = Append(trace, Call("VerifySingleV101", 0, VerifySingleV101(buffer)))
    /\ pc' = "done"
    /\ UNCHANGED <<opts, disk, globals, ret, out>>

SingleNext == CallVerifySingle \/ CallVerifySingleV101

SingleSpec == SingleInit /\ [][SingleNext]_vars

(***************************************************************************)
(* Vocabulary of the properties.                                           *)
(***************************************************************************)
\* processFile has returned
Returned == pc \in {"done", "exited"}

LastCall == trace[Len(trace)]
LastCallIs(fn) == trace # <<>> /\ LastCall.fn = fn
\* the last call is the first call of Verify in this process
FirstVerifyDone ==
    /\ LastCallIs("Verify")
    /\ \A k \in 1..(Len(trace) - 1) : trace[k].fn # "Verify"

MarkersOk(b) == sysexBeginF0(b) = 240 /\ yamaha43(b) = 67 /\ sysexEndF7(b) = 247
HeaderCanonical(b) == SubSeq(b, 1, 6) = <<240, 67, 0, 9, 32, 0>>
SizeOk(b) == sizeMSB(b) = 32 /\ sizeLSB(b) = 0
StoredChecksumRight(b) == checksumOf(b) = RightChecksum(b, 6, 6 + rawDataSize)
CanonicalBank(b) ==
    HeaderCanonical(b) /\ sysexEndF7(b) = 247 /\ StoredChecksumRight(b)

\* the bytes the file had before FixFile was first called (with a backup
\* requested they are in the .ORIG file once the rename is done, and still in
\* the file itself before)
OrigData == IF disk.orig.exists THEN disk.orig.data ELSE disk.file.data

ChecksumText == "CHECKSUM FAILED: Should have been 0x%X"
FormatText == "Did not find format 9 (32 voices)"
SizeText == "WARNING: Declared data byte count is not 4096. (sizeMSB=0x%X, sizeLSB=0x%X)"
SubStatusText == "Did not find substatus 0. (substatus=%d)"
EndText == "Did not find sysex end F7"
Printed(text) == \E k \in 1..Len(out) : out[k].text = text

(***************************************************************************)
(* C1: the checksum returned by Checksum (4096-byte span) and by           *)
(* ChecksumSingle (explicit span) lies in 0..127 and brings the unbounded  *)
(* sum S of the 7-bit masked bytes to 0 modulo 128, whatever the 8-bit     *)
(* accumulator wrapped.                                                    *)
(***************************************************************************)
C1_ChecksumRoundTrip ==
    \A k \in 1..Len(trace) :
        trace[k].fn \in {"Checksum", "ChecksumSingle"} =>
            /\ trace[k].ret \in 0..127
            /\ (Sum7(disk.file.data, 6, 6 + trace[k].arg) + trace[k].ret) % 128 = 0

\* ChecksumSingle was called on the span of a voice whose sum S exceeds 8 bits
\* and differs from its 8-bit remainder in bit 7
C1_Witness ==
    /\ LastCallIs("ChecksumSingle")
    /\ LastCall.arg = SizeofVoiceUnpacked
    /\ LastCall.ret # 0
    /\ Sum7(disk.file.data, 6, 6 + SizeofVoiceUnpacked) > 255
    /\ (Sum7(disk.file.data, 6, 6 + SizeofVoiceUnpacked) % 256) >= 128

(***************************************************************************)
(* C2: Verify returns 0 for a bank buffer exactly when the start marker is *)
(* 0xF0, the vendor id 0x43 and the end marker 0xF7, whatever the other    *)
(* bytes are.                                                              *)
(***************************************************************************)
C2_VerifyPassIffMarkers ==
    LastCallIs("Verify") => (LastCall.ret = 0 <=> MarkersOk(buffer))

\* Verify passed a buffer whose sub-status, format id, size and checksum are
\* all off
C2_Witness ==
    /\ trace = <<Call("Verify", 0, 0)>>
    /\ subStatusAndChannel(buffer) = 1
    /\ format9(buffer) # 9
    /\ ~SizeOk(buffer)
    /\ ~StoredChecksumRight(buffer)
    /\ buffer[7] = 129

(***************************************************************************)
(* C3: once Verify has reported a fatal error, processFile is over with    *)
(* return value 1: no rendering, no repair, no duplicate detection, and    *)
(* the file is neither renamed nor written, under every option.            *)
(***************************************************************************)
VerifyFailed == \E k \in 1..Len(trace) : trace[k].fn = "Verify" /\ trace[k].ret # 0

C3_FatalStopsProcessing ==
    VerifyFailed =>
        /\ Returned
        /\ ret = 1
        /\ trace = <<Call("Verify", 0, 1)>>
        /\ disk = [file |-> File(buffer), orig |-> NoFile]

\* a fatal bank that Verify had already marked fixNeeded, run with --fix -y
\* --no-backup -i
C3_Witness ==
    /\ VerifyFailed
    /\ fixFiles /\ ~askToFix /\ noBackup /\ findDupes /\ ~errorsOnly
    /\ fixNeeded
    /\ Returned

(***************************************************************************)
(* C4: with canonical markers, format id, size and checksum, Verify sets   *)
(* fixNeeded exactly when the high nibble of the sub-status/channel byte   *)
(* is nonzero.                                                             *)
(***************************************************************************)
C4_SubStatusHighNibble ==
    (/\ trace = <<Call("Verify", 0, 0)>>
     /\ format9(buffer) = 9
     /\ SizeOk(buffer)
     /\ StoredChecksumRight(buffer))
        => (fixNeeded <=> (subStatusAndChannel(buffer) \div 16) # 0)

(***************************************************************************)
(* C5: with canonical markers, a wrong format id, a wrong size pair or a   *)
(* wrong stored checksum each make Verify set fixNeeded and return 0; and  *)
(* a wrong end marker is still reported as fatal after a wrong format id   *)
(* or size, which has set fixNeeded by then.                               *)
(***************************************************************************)
C5_RecoverableDeviations ==
    LastCallIs("Verify") =>
        /\ (MarkersOk(buffer)
              /\ (format9(buffer) # 9 \/ ~SizeOk(buffer) \/ ~StoredChecksumRight(buffer)))
            => (LastCall.ret = 0 /\ fixNeeded)
        /\ (sysexBeginF0(buffer) = 240 /\ yamaha43(buffer) = 67
              /\ sysexEndF7(buffer) # 247)
            => /\ LastCall.ret = 1
               /\ msgBuffer.text = EndText
               /\ (format9(buffer) # 9 \/ ~SizeOk(buffer)) => fixNeeded

\* a wrong end marker reported after a wrong format id
C5_Witness ==
    /\ trace = <<Call("Verify", 0, 1)>>
    /\ format9(buffer) # 9
    /\ SizeOk(buffer)
    /\ sysexEndF7(buffer) # 247
    /\ msgBuffer.text = EndText
    /\ fixNeeded

(***************************************************************************)
(* C6: a buffer with header F0 43 00 09 20 00, end marker F7 and the right *)
(* checksum byte validates as pass, with fixNeeded false and no            *)
(* diagnostic.                                                             *)
(***************************************************************************)
C6_CanonicalBankIsClean ==
    (FirstVerifyDone /\ CanonicalBank(buffer)) =>
        (LastCall.ret = 0 /\ ~fixNeeded /\ msgBuffer = NoMsg)

\* the all-zero payload with checksum byte 0x00, validated
C6_Witness ==
    /\ trace = <<Call("Verify", 0, 0)>>
    /\ HeaderCanonical(buffer)
    /\ voices(buffer) = ZeroPayload
    /\ checksumOf(buffer) = 0
    /\ sysexEndF7(buffer) = 247
    /\ ~fixNeeded

(***************************************************************************)
(* C7: an otherwise canonical bank whose stored checksum is wrong          *)
(* validates as pass with fixNeeded and the checksum diagnostic, and       *)
(* FixFile then sets the checksum byte to the checksum of the payload.     *)
(***************************************************************************)
OnlyChecksumWrong(b) ==
    HeaderCanonical(b) /\ sysexEndF7(b) = 247 /\ ~StoredChecksumRight(b)

C7_ChecksumMismatchRepaired ==
    /\ (Len(trace) = 1 /\ trace[1].fn = "Verify" /\ OnlyChecksumWrong(buffer))
        => /\ trace[1].ret = 0
           /\ fixNeeded
           /\ msgBuffer = Msg(ChecksumText, <<RightChecksum(buffer, 6, 6 + rawDataSize)>>)
    /\ (Len(trace) = 2 /\ trace[1].fn = "Verify" /\ trace[2].fn = "FixFile"
          /\ OnlyChecksumWrong(OrigData))
        => /\ checksumOf(buffer) = RightChecksum(OrigData, 6, 6 + rawDataSize)
           /\ voices(buffer) = voices(OrigData)

\* the all-zero payload stored with 0x01, validated and repaired to 0x00
C7_Witness ==
    /\ Len(trace) = 2 /\ trace[1].fn = "Verify" /\ trace[2].fn = "FixFile"
    /\ HeaderCanonical(OrigData)
    /\ voices(OrigData) = ZeroPayload
    /\ checksumOf(OrigData) = 1
    /\ msgBuffer = Msg(ChecksumText, <<0>>)
    /\ checksumOf(buffer) = 0

(***************************************************************************)
(* C8: when Verify has passed a bank, the report printed for it has one    *)
(* diagnostic for each recoverable deviation Verify encountered: the       *)
(* sub-status line when its test of line 842 fired, the format line when   *)
(* the format id is not 9, the size line when the size pair is not 20 00,  *)
(* the checksum line when the stored checksum is wrong; and no other.      *)
(***************************************************************************)
C8_OneDiagnosticPerDeviation ==
    (pc = "render" /\ sysexFile) =>
        /\ Printed(SubStatusText) <=> SubStatusTest(subStatusAndChannel(buffer))
        /\ Printed(FormatText) <=> format9(buffer) # 9
        /\ Printed(SizeText) <=> ~SizeOk(buffer)
        /\ Printed(ChecksumText) <=> ~StoredChecksumRight(buffer)

(***************************************************************************)
(* C9: the buffer FixFile produces from a bank that validates as pass      *)
(* validates as pass with fixNeeded false.                                 *)
(***************************************************************************)
C9_RepairConverges ==
    (Len(trace) = 2 /\ trace[1].fn = "FixFile" /\ trace[2].fn = "Verify"
       /\ MarkersOk(OrigData))
        => (trace[2].ret = 0 /\ ~fixNeeded /\ msgBuffer = NoMsg)

\* a bank with all four recoverable deviations, repaired and validated
C9_Witness ==
    /\ Len(trace) = 2 /\ trace[1].fn = "FixFile" /\ trace[2].fn = "Verify"
    /\ MarkersOk(OrigData)
    /\ subStatusAndChannel(OrigData) = 1
    /\ format9(OrigData) # 9
    /\ ~SizeOk(OrigData)
    /\ ~StoredChecksumRight(OrigData)
    /\ ~fixNeeded

(***************************************************************************)
(* C10: FixFile leaves every byte of an already canonical buffer as it is, *)
(* and a second FixFile leaves the buffer as the first one made it.        *)
(***************************************************************************)
FixFileStep ==
    Len(trace') > Len(trace) /\ trace'[Len(trace')].fn = "FixFile"

C10_RepairIdempotent ==
    [][(FixFileStep /\ (LastCallIs("FixFile") \/ CanonicalBank(buffer)))
          => buffer' = buffer]_vars

\* FixFile called twice on a canonical bank (the second rename failed, so
\* the .ORIG file is still the original): the buffer is still that bank
C10_Witness ==
    /\ Len(trace) = 2
    /\ trace[1] = Call("FixFile", 0, 0)
    /\ trace[2] = Call("FixFile", 0, 1)
    /\ disk.file.exists /\ disk.orig.exists
    /\ Flushed(disk.file).data = buffer
    /\ CanonicalBank(disk.orig.data)
    /\ buffer[7] = 129
    /\ buffer = disk.orig.data

(***************************************************************************)
(* C11: when FixFile reports that the rename to <path>.ORIG failed, which  *)
(* it does only if a backup is requested, it returns 1 and has left the    *)
(* disk as it was: the target is neither opened for writing nor written.   *)
(***************************************************************************)
RenameFailText == "File could not be renamed for backup. File-fix aborted. %s"
OpenFailText == "Can't open the file for writing: %s. %s"
WriteFailText == "Error writing to file: %s. %s"

RenameFailedStep ==
    FixFileStep /\ out' # <<>> /\ out'[Len(out')].text = RenameFailText

C11_FailedBackupWritesNothing ==
    [][RenameFailedStep =>
          (~noBackup /\ trace'[Len(trace')].ret = 1 /\ disk' = disk)]_vars

\* the rename failed on a bank in need of repair: the buffer is repaired, the
\* file still has the bytes it had
C11_Witness ==
    /\ LastCallIs("FixFile")
    /\ LastCall.ret = 1
    /\ Printed(RenameFailText)
    /\ ~noBackup
    /\ disk.file.exists /\ ~disk.orig.exists
    /\ Len(disk.file.data) = sysexSize
    /\ disk.file.data # buffer

(***************************************************************************)
(* C12: when FixFile has failed, processFile does not return success.      *)
(***************************************************************************)
RepairFailed == \E k \in 1..Len(trace) : trace[k].fn = "FixFile" /\ trace[k].ret # 0

C12_RepairFailurePropagated ==
    (Returned /\ RepairFailed) => ret # 0

(***************************************************************************)
(* C13: FixFile is called only with --fix given, fixNeeded set and the     *)
(* confirmation not declined (-y, or an answer that starts with neither N  *)
(* nor n), and the program changes the disk in no other step than a call   *)
(* of FixFile and the exit of a process that called it, when its stream is *)
(* flushed.  The only other change of the disk is the one another process  *)
(* makes while the program waits at the prompt, FixFile not yet called.    *)
(***************************************************************************)
\* a step that is not the program's: it stays in fgets
WaitingStep == pc = "ask" /\ pc' = "ask" /\ ~Called("FixFile")
Confirmed ==
    askToFix => \E k \in 1..Len(trace) :
                    trace[k].fn = "fgets" /\ trace[k].ret \notin {"N", "n"}

C13_RepairOnlyWhenConfirmed ==
    /\ [](Called("FixFile") => (fixFiles /\ fixNeeded /\ Confirmed))
    /\ [][disk' # disk =>
             \/ FixFileStep
             \/ pc' = "exited" /\ Called("FixFile")
             \/ WaitingStep]_vars

\* FixFile ran after the answer Y and made the backup
C13_Witness ==
    /\ Called("FixFile")
    /\ askToFix
    /\ \E k \in 1..Len(trace) : trace[k].fn = "fgets" /\ trace[k].ret = "Y"
    /\ disk.orig.exists /\ disk.file.exists

(***************************************************************************)
(* C14: a file that could be opened is classified by its length alone:     *)
(* 4104 is a bank, 4096 a headerless bank, 163 a single voice dump; every  *)
(* other length, the neighbours of these three included, ends processFile  *)
(* with 1 and the line "too big" above 4104 and "too small" otherwise,     *)
(* with no function called and the disk untouched.                         *)
(***************************************************************************)
CantOpenText == "ERROR: Can't open the file: %s"
ReadErrorText == "File read error"
TooBigText == "File too big (%d Bytes)"
TooSmallText == "File too small (%d Bytes)"
\* processFile was called: the process did not end in processOpts or in main
Entered ==
    /\ pc \notin {"main", "opts"}
    /\ ~Printed("Expecting a filename.")
    /\ ~Printed("Try -h for help.")
    /\ ~Printed("Options:")
    /\ ~Printed("dx7dump %s")
Opened == Entered /\ pc # "ingest" /\ ~Printed(CantOpenText)
KnownSizes == {sysexSize, rawDataSize, singleSysexSize}
DiskUntouched ==
    disk.file.exists /\ ~disk.orig.exists /\ Len(disk.file.data) = fsize

C14_ClassificationExact ==
    Opened =>
        /\ pc \in {"verify", "single"} => DiskUntouched
        /\ pc = "verify" =>
              /\ fsize \in {sysexSize, rawDataSize}
              /\ sysexFile <=> fsize = sysexSize
              /\ ~singleVoiceFile
        /\ pc = "single" => (fsize = singleSysexSize /\ singleVoiceFile /\ sysexFile)
        /\ (fsize \in KnownSizes /\ ~Printed(ReadErrorText)) =>
              /\ singleVoiceFile <=> fsize = singleSysexSize
              /\ sysexFile <=> fsize # rawDataSize
        /\ fsize \notin KnownSizes =>
              /\ Returned /\ ret = 1
              /\ trace = <<>>
              /\ DiskUntouched
              /\ out = <<FileNameLine,
                         Msg(IF fsize > sysexSize THEN TooBigText ELSE TooSmallText,
                             <<fsize>>)>>
              /\ sysexFile /\ ~singleVoiceFile /\ ~fixNeeded /\ ~softError

\* a file one byte short of a bank
C14_Witness ==
    /\ Opened
    /\ fsize = sysexSize - 1
    /\ Returned /\ ret = 1
    /\ Printed(TooSmallText)
    /\ fixFiles /\ findDupes

(***************************************************************************)
(* C15: a 4096-byte file that was read is a headerless bank with fixNeeded *)
(* and softError set, whatever its bytes; Verify is never called on it and *)
(* processFile never returns 1 for it.                                     *)
(***************************************************************************)
HeaderlessRead ==
    Opened /\ fsize = rawDataSize /\ ~Printed(ReadErrorText)

C15_HeaderlessAlwaysFlagged ==
    HeaderlessRead =>
        /\ ~sysexFile /\ ~singleVoiceFile
        /\ fixNeeded /\ softError
        /\ ~Called("Verify")
        /\ Returned => ret = 0

\* a headerless file processed to the end
C15_Witness ==
    /\ HeaderlessRead
    /\ Returned /\ ret = 0
    /\ buffer[7] = 129
    /\ Called("Format")
    /\ fixNeeded /\ softError

(***************************************************************************)
(* C16: once a headerless bank has left classification, the first six      *)
(* bytes of the buffer are F0 43 00 09 20 00 and the payload of the file   *)
(* follows them, before validation and rendering and whether or not        *)
(* FixFile runs later.                                                     *)
(***************************************************************************)
C16_HeaderSynthesizedAtIngestion ==
    (HeaderlessRead /\ pc \in {"verify", "render", "fix"}) =>
        /\ HeaderCanonical(buffer)
        /\ voices(buffer) = disk.file.data

(***************************************************************************)
(* C17: whenever VerifySingle has computed a nonzero error code, it        *)
(* returns failure; in particular for a stored checksum that differs from  *)
(* the computed one.                                                       *)
(***************************************************************************)
C17_SingleErrorIsFailure ==
    \A k \in 1..Len(trace) :
        (trace[k].fn = "VerifySingle" /\ trace[k].arg # 0) => trace[k].ret # 0

(***************************************************************************)
(* C18: a 163-byte file goes the single voice way under every option:      *)
(* Verify, Format, FixFile and FindDupes are never called, nothing is      *)
(* asked, and the file is neither renamed nor written.                     *)
(***************************************************************************)
C18_SingleVoiceNeverInBankPipeline ==
    (Opened /\ fsize = singleSysexSize) =>
        /\ (pc = "single" \/ Returned)
        /\ \A k \in 1..Len(trace) : trace[k].fn = "VerifySingle"
        /\ DiskUntouched
        /\ Returned => ret = 1

\* a valid single voice dump given with --fix -y -i
C18_Witness ==
    /\ trace = <<Call("VerifySingle", 0, 0)>>
    /\ fsize = singleSysexSize
    /\ fixFiles /\ ~askToFix /\ findDupes /\ ~errorsOnly
    /\ Returned

(***************************************************************************)
(* C19: FindDupes prints the pair of voices i and j, i before j, exactly   *)
(* when the first 118 bytes of their 128-byte records are equal; the last  *)
(* 10 bytes, the name, play no part.                                       *)
(***************************************************************************)
DuplicateText == "Found duplicate: %d = %d"
\* the pairs printed, in the order of printing, as the 1-based numbers shown
IsDuplicateLine(line) == line.text = DuplicateText
ReportedPairs ==
    LET lines == SelectSeq(out, IsDuplicateLine)
    IN  [k \in 1..Len(lines) |-> lines[k].args]

\* byte o (1..128) of the record of voice i (1..32)
VoiceByte(b, i, o) == b[6 + (i - 1) * 128 + o]
NonNameEqual(b, i, j) == \A o \in 1..118 : VoiceByte(b, i, o) = VoiceByte(b, j, o)
NameEqual(b, i, j) == \A o \in 119..128 : VoiceByte(b, i, o) = VoiceByte(b, j, o)
VoicePairs == {p \in (1..32) \X (1..32) : p[1] < p[2]}
MatchingPairs(b) == {p \in VoicePairs : NonNameEqual(b, p[1], p[2])}

C19_DuplicateIffNonNameBytesEqual ==
    LastCallIs("FindDupes") =>
        {ReportedPairs[k] : k \in 1..Len(ReportedPairs)} = MatchingPairs(buffer)

\* two voices that differ in a name byte only are reported, in a bank where
\* no other two voices match
C19_Witness ==
    /\ LastCallIs("FindDupes")
    /\ ReportedPairs = << <<1, 2>> >>
    /\ ~NameEqual(buffer, 1, 2)

(***************************************************************************)
(* C20: the pairs FindDupes prints are pairs of voices i < j, in ascending *)
(* i and then ascending j, none twice, and as many as there are matching   *)
(* pairs among the 496: all 496 when all voices match.                     *)
(***************************************************************************)
PairBefore(p, q) == p[1] < q[1] \/ (p[1] = q[1] /\ p[2] < q[2])

C20_PairsOnceInOrder ==
    LastCallIs("FindDupes") =>
        /\ \A k \in 1..Len(ReportedPairs) : ReportedPairs[k] \in VoicePairs
        /\ \A k \in 1..(Len(ReportedPairs) - 1) :
              PairBefore(ReportedPairs[k], ReportedPairs[k + 1])
        /\ Len(ReportedPairs) = Cardinality(MatchingPairs(buffer))
        /\ LastCall.ret = Len(ReportedPairs)

\* a bank of 32 equal voices: every one of the 496 pairs is printed
C20_Witness ==
    /\ LastCallIs("FindDupes")
    /\ Cardinality(VoicePairs) = 496
    /\ Len(ReportedPairs) = 496
    /\ ReportedPairs[1] = <<1, 2>>
    /\ ReportedPairs[496] = <<31, 32>>

(***************************************************************************)
(* C21: UnpackVoice gives, for every packed voice, an unpacked voice of    *)
(* 155 bytes in which every field has the value of the packed field it     *)
(* comes from: a bit-field the bits at its position, at most 2^width - 1,  *)
(* a byte-wide field and the name the same bytes, operator k from          *)
(* operator k.                                                             *)
(***************************************************************************)
\* where field f (1..21) of an unpacked operator comes from: the byte of
\* the packed operator, the first bit, the width
OperatorFieldSource ==
    << <<1, 0, 8>>, <<2, 0, 8>>, <<3, 0, 8>>, <<4, 0, 8>>, <<5, 0, 8>>, <<6, 0, 8>>,
       <<7, 0, 8>>, <<8, 0, 8>>, <<9, 0, 8>>, <<10, 0, 8>>, <<11, 0, 8>>,
       <<12, 0, 2>>, <<12, 2, 2>>, <<13, 0, 3>>, <<14, 0, 2>>, <<14, 2, 3>>,
       <<15, 0, 8>>, <<16, 0, 1>>, <<16, 1, 5>>, <<17, 0, 8>>, <<13, 3, 4>> >>
\* the same for field f (1..29) after the operators, as bytes of the voice
GlobalFieldSource ==
    << <<103, 0, 8>>, <<104, 0, 8>>, <<105, 0, 8>>, <<106, 0, 8>>, <<107, 0, 8>>,
       <<108, 0, 8>>, <<109, 0, 8>>, <<110, 0, 8>>,
       <<111, 0, 5>>, <<112, 0, 3>>, <<112, 3, 1>>,
       <<113, 0, 8>>, <<114, 0, 8>>, <<115, 0, 8>>, <<116, 0, 8>>,
       <<117, 0, 1>>, <<117, 1, 3>>, <<117, 4, 3>>, <<118, 0, 8>>,
       <<119, 0, 8>>, <<120, 0, 8>>, <<121, 0, 8>>, <<122, 0, 8>>, <<123, 0, 8>>,
       <<124, 0, 8>>, <<125, 0, 8>>, <<126, 0, 8>>, <<127, 0, 8>>, <<128, 0, 8>> >>

\* bit n (0..7) of byte x
BitOf(x, n) == (x \div (2 ^ n)) % 2
\* the value of the bits src[2] .. src[2] + src[3] - 1 of byte x, bit by bit
RECURSIVE DecodedFrom(_, _, _)
DecodedFrom(x, lo, width) ==
    IF width = 0 THEN 0
    ELSE BitOf(x, lo) + 2 * DecodedFrom(x, lo + 1, width - 1)

Decodes(u, p) ==
    /\ Len(u) = SizeofVoiceUnpacked
    /\ \A k \in 0..5 : \A f \in 1..21 :
          LET src == OperatorFieldSource[f]
          IN  /\ u[21 * k + f] = DecodedFrom(p[17 * k + src[1]], src[2], src[3])
              /\ u[21 * k + f] <= 2 ^ src[3] - 1
    /\ \A f \in 1..29 :
          LET src == GlobalFieldSource[f]
          IN  /\ u[126 + f] = DecodedFrom(p[src[1]], src[2], src[3])
              /\ u[126 + f] <= 2 ^ src[3] - 1

C21_UnpackDecodesEveryField ==
    \A k \in 1..Len(trace) :
        trace[k].fn = "UnpackVoice" => Decodes(trace[k].ret, trace[k].arg)

\* the detune field of operator 3 at its highest value, 15, in a voice of
\* zero bytes: operators 1, 2, 4, 5, 6 stay zero
C21_Witness ==
    /\ LastCallIs("UnpackVoice")
    /\ LastCall.arg[2 * 17 + 13] = 120
    /\ LastCall.ret[2 * 21 + 21] = 15
    /\ LastCall.ret[2 * 21 + 14] = 0
    /\ LastCall.ret[3 * 21 + 21] = 0
    /\ LastCall.arg[1] = 0

(***************************************************************************)
(* C22: when -i is given and the bank has passed validation, processFile   *)
(* does not end without having called FindDupes, whether FixFile was not   *)
(* called, succeeded, failed, or was declined at the prompt.               *)
(***************************************************************************)
ReadAsBank == Opened /\ fsize \in {sysexSize, rawDataSize} /\ ~Printed(ReadErrorText)

C22_DupesAlwaysRun ==
    (Returned /\ findDupes /\ ReadAsBank /\ ~VerifyFailed) => Called("FindDupes")

(***************************************************************************)
(* C23: a file of a known length whose read comes short is reported with   *)
(* the read error alone, never with "too small" or "too big" as well.      *)
(***************************************************************************)
C23_ReadErrorIsNotSizeError ==
    Printed(ReadErrorText) => (~Printed(TooSmallText) /\ ~Printed(TooBigText))

(***************************************************************************)
(* C24: a call of FixFile, whatever its outcome, leaves the 4096 payload   *)
(* bytes of the buffer as they were and leaves the buffer with the         *)
(* canonical header, a 7-bit checksum byte and the end marker.             *)
(***************************************************************************)
C24_RepairRewritesEnvelopeOnly ==
    [][FixFileStep =>
          /\ voices(buffer') = voices(buffer)
          /\ HeaderCanonical(buffer')
          /\ checksumOf(buffer') \in 0..127
          /\ sysexEndF7(buffer') = 247]_vars

\* the write came short on a bank with a payload byte of 129 and a wrong
\* format id: the buffer is repaired all the same
C24_Witness ==
    /\ Called("FixFile")
    /\ Printed(WriteFailText)
    /\ sysexFile
    /\ buffer[7] = 129
    /\ HeaderCanonical(buffer)
    /\ disk.orig.exists
    /\ format9(disk.orig.data) # 9
    /\ voices(disk.orig.data) = voices(buffer)

(***************************************************************************)
(* C25: when FixFile has returned 0 on a headerless bank, the process      *)
(* leaves a file of 4104 bytes: the header F0 43 00 09 20 00, the 4096     *)
(* bytes of the original file, a checksum byte and F7; and Verify, run on  *)
(* that file by a new process, returns 0 with fixNeeded false and no       *)
(* diagnostic.                                                             *)
(***************************************************************************)
C25_HeaderlessRepairRoundTrip ==
    (pc = "exited" /\ ~sysexFile /\ LastCallIs("FixFile") /\ LastCall.ret = 0) =>
        /\ Len(disk.file.data) = sysexSize
        /\ SubSeq(disk.file.data, 1, 6) = <<240, 67, 0, 9, 32, 0>>
        /\ voices(disk.file.data) = voices(buffer)
        /\ sysexEndF7(disk.file.data) = 247
        /\ Verify(disk.file.data, NoMsg, FALSE)
              = [ret |-> 0, msgBuffer |-> NoMsg, fixNeeded |-> FALSE]

(***************************************************************************)
(* C26: in both revisions, VerifySingle returns 0 for a 163-byte dump with *)
(* start F0, vendor 43, a sub-status/channel byte of high nibble 0, format *)
(* 00, size 01 1B, end F7 and the right checksum.                          *)
(***************************************************************************)
CanonicalSingle(b) ==
    /\ sysexBeginF0(b) = 240
    /\ yamaha43(b) = 67
    /\ subStatusAndChannel(b) \div 16 = 0
    /\ format9(b) = 0
    /\ sizeMSB(b) = 1 /\ sizeLSB(b) = 27
    /\ singleEndF7(b) = 247
    /\ singleChecksum(b) = RightChecksum(b, 6, 6 + SizeofVoiceUnpacked)

C26_CanonicalSingleIsOk ==
    (trace # <<>> /\ LastCall.fn \in {"VerifySingle", "VerifySingleV101"}
       /\ CanonicalSingle(buffer))
        => LastCall.ret = 0

(***************************************************************************)
(* C27: from the rendering stage of processFile on, for a bank with or     *)
(* without header, softError is true exactly when fixNeeded is.            *)
(***************************************************************************)
C27_SoftErrorIffFixNeeded ==
    pc \in {"render", "fix", "dupes"} => (softError <=> fixNeeded)

\* a bank whose only deviation is its checksum, about to be rendered
C27_Witness ==
    /\ pc = "render"
    /\ sysexFile
    /\ HeaderCanonical(buffer)
    /\ msgBuffer.text = ChecksumText
    /\ softError /\ fixNeeded

(***************************************************************************)
(* C28: with a backup requested, every call of FixFile leaves the bytes    *)
(* the file had before the call on disk: in the file itself, the disk      *)
(* being unchanged, when the rename failed, and in <path>.ORIG otherwise;  *)
(* and the flush at exit leaves them there.                                *)
(***************************************************************************)
C28_OriginalBytesKept ==
    /\ [][(FixFileStep /\ ~noBackup) =>
             \/ disk' = disk /\ disk.file.exists
             \/ disk'.orig = disk.file /\ disk.file.exists]_vars
    /\ [][(pc' = "exited" /\ ~noBackup /\ Called("FixFile")) =>
             \/ disk' = disk /\ ~disk.orig.exists
             \/ disk'.orig = disk.orig /\ disk.orig.exists]_vars

\* the write came short: the file has 6 bytes, the backup has the bank
C28_Witness ==
    /\ Called("FixFile")
    /\ Printed(WriteFailText)
    /\ ~noBackup
    /\ disk.file.exists /\ Len(disk.file.data) = 6
    /\ disk.orig.exists /\ Len(disk.orig.data) = sysexSize
    /\ disk.orig.data # buffer

\* b with bit 7 of every payload byte cleared, and with bit 7 of every payload
\* byte set
Bit7Cleared(b) ==
    [i \in 1..Len(b) |-> IF i \in 7..(6 + rawDataSize) THEN b[i] % 128 ELSE b[i]]
Bit7Set(b) ==
    [i \in 1..Len(b) |-> IF i \in 7..(6 + rawDataSize) THEN (b[i] % 128) + 128 ELSE b[i]]

(***************************************************************************)
(* C29: bit 7 of the payload bytes has no part in validation.  The first   *)
(* Verify of a process gives, on the buffer with bit 7 of every payload    *)
(* byte cleared and on the buffer with it set, the checksum, the return    *)
(* value, the diagnostic and the fixNeeded it gives on the buffer itself;  *)
(* and a FixFile that follows a clean validation leaves the buffer, bytes  *)
(* of 0x80 and more included, as it was.                                   *)
(***************************************************************************)
C29_Bit7Ignored ==
    /\ FirstVerifyDone =>
          \A v \in {Bit7Cleared(buffer), Bit7Set(buffer)} :
             /\ Checksum(v) = Checksum(buffer)
             /\ Verify(v, NoMsg, FALSE) =
                   [ret |-> LastCall.ret, msgBuffer |-> msgBuffer,
                    fixNeeded |-> fixNeeded]
    /\ ( /\ Len(trace) = 2
         /\ trace[1].fn = "Verify" /\ trace[1].ret = 0 /\ ~fixNeeded
         /\ trace[2].fn = "FixFile" ) => buffer = OrigData

\* a payload with bit 7 set in every byte validated clean, and FixFile ran:
\* the file it wrote is, its stream once flushed, the buffer
C29_Witness ==
    /\ Len(trace) = 2
    /\ trace[1].fn = "Verify" /\ trace[1].ret = 0 /\ ~fixNeeded
    /\ msgBuffer = NoMsg
    /\ trace[2].fn = "FixFile" /\ trace[2].ret = 0
    /\ buffer[7] >= 128 /\ buffer[8] >= 128
    /\ Flushed(disk.file).data = buffer

(***************************************************************************)
(* C30: FindDupes compares the packed bytes, not the decoded parameters.   *)
(* Every reported pair has its first 118 packed bytes equal; when (i, j)   *)
(* and (j, k) are reported, i < j < k, so is (i, k); and two voices that   *)
(* UnpackVoice decodes to the same values, but whose first 118 packed      *)
(* bytes differ, are not reported.                                         *)
(***************************************************************************)
DecodedVoices(b) == [i \in 1..32 |-> UnpackVoice(VoiceBytes(b, i - 1, SizeofVoicePacked))]

C30_RawBytesEquivalence ==
    LastCallIs("FindDupes") =>
        \E R \in {{ReportedPairs[k] : k \in 1..Len(ReportedPairs)}}, U \in {DecodedVoices(buffer)} :
           /\ \A p \in R : NonNameEqual(buffer, p[1], p[2])
           /\ \A p \in R, q \in R : p[2] = q[1] => <<p[1], q[2]>> \in R
           /\ \A p \in VoicePairs :
                 (U[p[1]] = U[p[2]] /\ ~NonNameEqual(buffer, p[1], p[2])) => p \notin R

\* voices 1 and 2 decode to the same values and differ in the unused bit 4 of
\* byte 12 only; they are not reported, while the other voices, all equal,
\* are: 1 stands alone among 32 voices that decode alike
C30_Witness ==
    /\ LastCallIs("FindDupes")
    /\ VoiceByte(buffer, 1, 12) = 16
    /\ VoiceByte(buffer, 2, 12) = 0
    /\ DecodedVoices(buffer)[1] = DecodedVoices(buffer)[2]
    /\ <<2, 3>> \in {ReportedPairs[k] : k \in 1..Len(ReportedPairs)}
    /\ <<3, 32>> \in {ReportedPairs[k] : k \in 1..Len(ReportedPairs)}
    /\ <<2, 32>> \in {ReportedPairs[k] : k \in 1..Len(ReportedPairs)}
    /\ \A k \in 1..Len(ReportedPairs) : ReportedPairs[k][1] # 1

=============================================================================
